---- MODULE Spec2Model ----
(***************************************************************************)
(* Model of .scanner/scan_and_review.py: a sequential pipeline that gets   *)
(* a git diff, loads a findings file, asks a text-generation service for   *)
(* a summary and for one fix per finding, formats a comment and posts it.  *)
(* The environment (process settings, git, the file system, the two HTTP   *)
(* services) is nondeterministic.                                          *)
(***************************************************************************)
EXTENDS Integers, Sequences, FiniteSets, TLC

\* ------------------------------------------------------------------ bounds
MaxFindings == 2        \* longest list under "results"
MaxFileLines == 3       \* longest file handed to get_code_snippet on its own
MaxLine == 4            \* largest line number handed to get_code_snippet

\* ------------------------------------------------------- python primitives
\* Python's None, for the variables that hold a string or None.
PyNone == "<None>"

\* bool(s) for s a string or None.
StrTruthy(s) == s # PyNone /\ s # ""

Max(a, b) == IF a >= b THEN a ELSE b
Min(a, b) == IF a <= b THEN a ELSE b

\* lines[lo:hi] with Python's treatment of negative and out-of-range bounds.
PySlice(s, lo, hi) ==
    LET n == Len(s)
        a == IF lo < 0 THEN Max(n + lo, 0) ELSE Min(lo, n)
        b == IF hi < 0 THEN Max(n + hi, 0) ELSE Min(hi, n)
    IN  IF a < b THEN SubSeq(s, a + 1, b) ELSE << >>

\* ----------------------------------------------------------- configuration
ConfigNames == {"OPENAI_API_KEY", "GITHUB_TOKEN", "REPO_NAME", "PR_NUMBER", "BASE_REF"}

\* os.environ.get(name): unset, set to the empty string, or set to a value.
EnvValues == {PyNone, "", "v"}

\* The all([...]) of main with one name forgotten.
ConfigComplete_NoBaseRef(e) ==
    \A k \in ConfigNames \ {"BASE_REF"} : StrTruthy(e[k])

\* all([OPENAI_API_KEY, GITHUB_TOKEN, REPO_NAME, PR_NUMBER, BASE_REF])
ConfigComplete(e) == \A k \in ConfigNames : StrTruthy(e[k])

\* ------------------------------------------------------------ source files
\* A file as open()/readlines() sees it.  Line i of a file is the number i.
FileLines(n) == [i \in 1..n |-> i]
MissingFile == [state |-> "missing", lines |-> << >>]
UnreadableFile == [state |-> "unreadable", lines |-> << >>]
ReadableFile(n) == [state |-> "readable", lines |-> FileLines(n)]

\* The checkout the findings refer to: one file that is there, one that is
\* not, and one path that exists but cannot be opened for reading (no read
\* permission, or a directory).
Paths == {"a.py", "gone.py", "locked"}
FileAt(path) ==
    CASE path = "a.py" -> ReadableFile(2)
      [] path = "gone.py" -> MissingFile
      [] OTHER -> UnreadableFile

\* What get_code_snippet hands back: the text, or the exception it lets out.
SnippetText(ls) == [raised |-> "none", kind |-> "text", lines |-> ls]
SnippetNotFound == [raised |-> "none", kind |-> "notfound", lines |-> << >>]
SnippetRaises(e) == [raised |-> e, kind |-> "none", lines |-> << >>]

\* get_code_snippet with the start index one too low.
get_code_snippet_OffByOne(file, start_line, end_line) ==
    CASE file.state = "missing" -> SnippetNotFound
      [] file.state = "unreadable" -> SnippetRaises("OSError")
      [] OTHER ->
           LET start == Max(0, start_line - 2)
               end == Min(Len(file.lines), end_line)
           IN  SnippetText(PySlice(file.lines, start, end))

\* get_code_snippet(file_path, start_line, end_line); file is what is at
\* file_path.  Only FileNotFoundError is caught.
get_code_snippet(file, start_line, end_line) ==
    CASE file.state = "missing" -> SnippetNotFound
      [] file.state = "unreadable" -> SnippetRaises("OSError")
      [] OTHER ->
           LET start == Max(0, start_line - 1)
               end == Min(Len(file.lines), end_line)
           IN  SnippetText(PySlice(file.lines, start, end))

\* ---------------------------------------------------------------- findings
\* One record of the scanner's "results".  complete is FALSE for a record
\* that lacks one of path, start.line, end.line, extra.message.
Ranges == {<<1, 2>>, <<3, 4>>}
Findings ==
    {[path |-> p, start_line |-> r[1], end_line |-> r[2], complete |-> TRUE] :
        p \in Paths, r \in Ranges}
    \cup {[path |-> "a.py", start_line |-> 1, end_line |-> 2, complete |-> FALSE]}

RECURSIVE SeqsUpTo(_, _)
SeqsUpTo(S, n) ==
    IF n = 0 THEN {<< >>}
    ELSE LET shorter == SeqsUpTo(S, n - 1)
         IN  shorter \cup {Append(s, x) : s \in {t \in shorter : Len(t) = n - 1}, x \in S}

Batches == SeqsUpTo(Findings, MaxFindings)

\* The value under the key "results": t is its JSON type ("absent" when the
\* key is not there), size what len() gives for a string, list or object.
JResults(t, size, items) == [t |-> t, size |-> size, items |-> items]
AbsentResults == JResults("absent", 0, << >>)
ResultsValues ==
    {JResults("null", 0, << >>), JResults("num", 0, << >>),
     JResults("str", 3, << >>), JResults("str", 0, << >>),
     JResults("obj", 1, << >>), JResults("obj", 0, << >>)}
    \cup {JResults("list", Len(b), b) : b \in Batches}

\* A parsed JSON document: t its top-level type, size its len() (number of
\* keys of an object) or the value of a number.
JDoc(t, size, results) == [t |-> t, size |-> size, results |-> results]
NoneDoc == JDoc("none", 0, AbsentResults)
Documents ==
    {JDoc("obj", 0, AbsentResults), JDoc("obj", 1, AbsentResults),
     JDoc("null", 0, AbsentResults), JDoc("list", 0, AbsentResults),
     JDoc("list", 1, AbsentResults), JDoc("num", 5, AbsentResults),
     JDoc("str", 3, AbsentResults)}
    \cup {JDoc("obj", 1, r) : r \in ResultsValues}

\* bool(v) of a parsed document (None, {}, [], 0, "" and null are false).
DocTruthy(d) == d.t \notin {"none", "null"} /\ d.size # 0

\* The findings file on disk.
ScannerFile(state, doc) == [state |-> state, doc |-> doc]
ScannerFiles ==
    {ScannerFile("missing", NoneDoc), ScannerFile("invalid", NoneDoc),
     ScannerFile("unreadable", NoneDoc)}
    \cup {ScannerFile("json", d) : d \in Documents}
UnreadFile == ScannerFile("unread", NoneDoc)

\* load_scanner_results(filepath): the parsed document, None for a missing
\* file or invalid JSON; any other failure of open() is not caught.
load_scanner_results(f) ==
    CASE f.state = "json" -> [raised |-> "none", value |-> f.doc]
      [] f.state \in {"missing", "invalid"} -> [raised |-> "none", value |-> NoneDoc]
      [] OTHER -> [raised |-> "OSError", value |-> NoneDoc]

\* ------------------------------------------------------------ HTTP services
\* What requests.post meets: error is the transport failure ("none" when a
\* response arrived), status and body describe the response.
HttpOutcome(error, status, body) == [error |-> error, status |-> status, body |-> body]
TimedOut == HttpOutcome("Timeout", 0, "")

\* Response.raise_for_status() raises HTTPError for 4xx and 5xx.
RaisesForStatus(o) == o.status >= 400

\* bool(response): requests defines Response.__bool__ as Response.ok, which
\* is False exactly when raise_for_status() would raise.
ResponseBool(o) == o.error = "none" /\ ~RaisesForStatus(o)

\* The text-generation service: the expected body, a body that is not JSON,
\* JSON without choices[0].message.content, an error status, no connection.
OpenAIReplies ==
    {HttpOutcome("none", 200, "content"), HttpOutcome("none", 200, "not_json"),
     HttpOutcome("none", 200, "no_field"), HttpOutcome("none", 500, "error"),
     HttpOutcome("ConnectionError", 0, "")}

\* The collaboration endpoint: created, refused with a body, failed with an
\* empty body, no connection.
GithubReplies ==
    {HttpOutcome("none", 201, "comment"), HttpOutcome("none", 403, "Forbidden"),
     HttpOutcome("none", 500, ""), HttpOutcome("ConnectionError", 0, "")}

\* The value call_openai returns: the generated text or an error string.
AiText == [kind |-> "text", cause |-> "none"]
AiError(cause) == [kind |-> "error", cause |-> cause]
NoAiReply == [kind |-> "unset", cause |-> "none"]

\* call_openai from its try block on, given what requests.post met.
\* RequestException covers ConnectionError, Timeout, HTTPError and the
\* JSONDecodeError of Response.json(); the subscripts of line 41 raise
\* KeyError (IndexError, TypeError), which is not caught.
call_openai(o) ==
    CASE o.error # "none" ->
           [raised |-> "none", value |-> AiError(o.error), printed |-> <<"Error calling OpenAI">>]
      [] o.error = "none" /\ RaisesForStatus(o) ->
           [raised |-> "none", value |-> AiError("HTTPError"), printed |-> <<"Error calling OpenAI">>]
      [] o.error = "none" /\ ~RaisesForStatus(o) /\ o.body = "not_json" ->
           [raised |-> "none", value |-> AiError("JSONDecodeError"), printed |-> <<"Error calling OpenAI">>]
      [] o.error = "none" /\ ~RaisesForStatus(o) /\ o.body = "no_field" ->
           [raised |-> "KeyError", value |-> NoAiReply, printed |-> << >>]
      [] OTHER ->
           [raised |-> "none", value |-> AiText, printed |-> << >>]

\* The lines post_to_pr prints, given what requests.post met.
post_to_pr(o) ==
    IF o.error = "none" /\ ~RaisesForStatus(o)
    THEN <<"Successfully posted comment to PR.">>
    ELSE <<"Error posting to GitHub">>
         \o (IF ResponseBool(o) THEN <<"Response body">> ELSE << >>)

\* ------------------------------------------------------------------ report
\* full_suggestion: the header naming the finding, then call_openai's value.
Suggestion(finding, reply) ==
    [path |-> finding.path, start_line |-> finding.start_line,
     end_line |-> finding.end_line, body |-> reply]

\* The append of get_ai_fixes leaving out a finding whose file was not found.
AppendFix_SkipNotFound(fixes, finding, snippet, reply) ==
    IF snippet.kind = "notfound" THEN fixes ELSE Append(fixes, Suggestion(finding, reply))

\* ai_fixes.append(full_suggestion)
AppendFix(fixes, finding, snippet, reply) == Append(fixes, Suggestion(finding, reply))

\* format_final_comment(summary, fixes): section is "anomalies" for the
\* "Anomalies Detected" list and "none" for the "No Anomalies Found" text.
format_final_comment(summary, fixes) ==
    [summary |-> summary,
     section |-> IF fixes # << >> THEN "anomalies" ELSE "none",
     fixes |-> fixes]
NoComment == [summary |-> NoAiReply, section |-> "unset", fixes |-> << >>]

\* ------------------------------------------------------------------- state
VARIABLES
    env,              \* the five settings read at import
    pc,               \* where main is
    hung,             \* the call in flight will never be answered
    diff,             \* main's diff
    scanner_file,     \* the findings file main found on disk
    scanner_results,  \* main's scanner_results
    ai_summary,       \* main's ai_summary
    idx,              \* position of get_ai_fixes' loop in findings
    ai_fixes,         \* get_ai_fixes' ai_fixes
    final_comment,    \* main's final_comment
    post_response,    \* what the comment POST met
    log,              \* the lines printed
    exc,              \* the exception that ended the run, if any
    diff_runs,        \* git subprocesses started
    file_reads,       \* opens of the findings file
    openai_calls,     \* POSTs sent to the text-generation service
    openai_done,      \* of these, the ones that returned or raised
    github_calls,     \* POSTs sent to the collaboration endpoint
    sn_pc, sn_file, sn_start, sn_end, sn_result   \* get_code_snippet on its own

pipeVars == <<env, pc, hung, diff, scanner_file, scanner_results, ai_summary, idx,
              ai_fixes, final_comment, post_response, log, exc, diff_runs,
              file_reads, openai_calls, openai_done, github_calls>>
snVars == <<sn_pc, sn_file, sn_start, sn_end, sn_result>>
vars == <<pipeVars, snVars>>

NoExc == [type |-> "none", site |-> "none"]
NoPost == HttpOutcome("unset", 0, "")
NoSnippet == SnippetRaises("unset")

Terminal == {"exit0", "exit1", "crashed"}

\* The exit status of the process: sys.exit(1) and an uncaught exception
\* both give 1, falling off the end of main gives 0.
ExitStatus == IF pc = "exit0" THEN 0 ELSE 1

PipeInit ==
    /\ pc = "start"
    /\ hung = FALSE
    /\ diff = PyNone
    /\ scanner_file = UnreadFile
    /\ scanner_results = NoneDoc
    /\ ai_summary = NoAiReply
    /\ idx = 1
    /\ ai_fixes = << >>
    /\ final_comment = NoComment
    /\ post_response = NoPost
    /\ log = << >>
    /\ exc = NoExc
    /\ diff_runs = 0
    /\ file_reads = 0
    /\ openai_calls = 0
    /\ openai_done = 0
    /\ github_calls = 0

SnIdle ==
    /\ sn_pc = "idle"
    /\ sn_file = MissingFile
    /\ sn_start = 0
    /\ sn_end = 0
    /\ sn_result = NoSnippet

Init ==
    /\ env \in [ConfigNames -> EnvValues]
    /\ PipeInit
    /\ SnIdle

\* ----------------------------------------------------------------- actions
\* An uncaught exception ends the run.
Crash(type, site) ==
    /\ pc' = "crashed"
    /\ exc' = [type |-> type, site |-> site]

\* bool(diff), the test of main line 183.
DiffObtained(d) == StrTruthy(d)

\* The test of main line 188 dropped: main goes on whatever was loaded.
ScannerResultsLoaded_Always(d) == TRUE

\* bool(scanner_results), the test of main line 188.
ScannerResultsLoaded(d) == DocTruthy(d)

\* main, lines 178-180: a setting is missing or empty.
Main_ConfigMissing ==
    /\ pc = "start"
    /\ UNCHANGED snVars
    /\ ~ConfigComplete(env)
    /\ log' = Append(log, "Error: Missing one or more environment variables.")
    /\ pc' = "exit1"
    /\ UNCHANGED <<env, hung, diff, scanner_file, scanner_results, ai_summary, idx,
                   ai_fixes, final_comment, post_response, exc, diff_runs,
                   file_reads, openai_calls, openai_done, github_calls>>

\* main line 182, get_pr_diff line 54: the git subprocess is started.  It is
\* run without a timeout.
GetPrDiff_Run ==
    /\ pc = "start"
    /\ UNCHANGED snVars
    /\ ConfigComplete(env)
    /\ diff_runs' = diff_runs + 1
    /\ hung' \in BOOLEAN
    /\ pc' = "diff_wait"
    /\ UNCHANGED <<env, diff, scanner_file, scanner_results, ai_summary, idx,
                   ai_fixes, final_comment, post_response, log, exc,
                   file_reads, openai_calls, openai_done, github_calls>>

\* What git diff can end with: a nonzero status, or its standard output.
DiffOutcomes == {[ok |-> FALSE, stdout |-> ""], [ok |-> TRUE, stdout |-> ""],
                 [ok |-> TRUE, stdout |-> "+print('hi')"]}

\* get_pr_diff lines 55-58 and main lines 183-185: git has ended.
GetPrDiff_Return ==
    /\ pc = "diff_wait"
    /\ UNCHANGED snVars
    /\ ~hung
    /\ \E out \in DiffOutcomes :
         LET d == IF out.ok THEN out.stdout ELSE PyNone
             printed == IF out.ok THEN << >> ELSE <<"Error getting git diff">>
         IN  /\ diff' = d
             /\ IF DiffObtained(d)
                THEN /\ pc' = "load"
                     /\ log' = log \o printed
                ELSE /\ pc' = "exit1"
                     /\ log' = log \o printed \o <<"Could not get PR diff. Exiting.">>
    /\ UNCHANGED <<env, hung, scanner_file, scanner_results, ai_summary, idx,
                   ai_fixes, final_comment, post_response, exc, diff_runs,
                   file_reads, openai_calls, openai_done, github_calls>>

\* main lines 187-190 with load_scanner_results.
Main_LoadResults ==
    /\ pc = "load"
    /\ UNCHANGED snVars
    /\ \E f \in ScannerFiles :
         LET r == load_scanner_results(f)
             printed == CASE f.state = "missing" -> <<"Scanner results file not found.">>
                          [] f.state = "invalid" -> <<"Error decoding scanner JSON.">>
                          [] OTHER -> << >>
         IN  /\ scanner_file' = f
             /\ file_reads' = file_reads + 1
             /\ IF r.raised # "none"
                THEN /\ Crash(r.raised, "load_scanner_results")
                     /\ UNCHANGED <<scanner_results, log>>
                ELSE /\ scanner_results' = r.value
                     /\ exc' = exc
                     /\ IF ScannerResultsLoaded(r.value)
                        THEN /\ pc' = "summary"
                             /\ log' = log \o printed
                        ELSE /\ pc' = "exit1"
                             /\ log' = log \o printed
                                          \o <<"Could not load scanner results. Exiting.">>
    /\ UNCHANGED <<env, hung, diff, ai_summary, idx, ai_fixes, final_comment,
                   post_response, diff_runs, openai_calls, openai_done, github_calls>>

\* main line 192, get_ai_summary, call_openai lines 23-39: the summary is
\* asked for.  Without a key call_openai returns at once.
GetAiSummary_Call ==
    /\ pc = "summary"
    /\ UNCHANGED snVars
    /\ IF ~StrTruthy(env["OPENAI_API_KEY"])
       THEN /\ ai_summary' = AiError("OPENAI_API_KEY not set")
            /\ log' = log \o <<"Getting AI summary for PR diff...",
                               "Error: OPENAI_API_KEY not set.">>
            /\ pc' = "fixes_enter"
            /\ UNCHANGED <<hung, openai_calls>>
       ELSE /\ log' = Append(log, "Getting AI summary for PR diff...")
            /\ openai_calls' = openai_calls + 1
            /\ hung' \in BOOLEAN
            /\ pc' = "summary_wait"
            /\ UNCHANGED ai_summary
    /\ UNCHANGED <<env, diff, scanner_file, scanner_results, idx, ai_fixes,
                   final_comment, post_response, exc, diff_runs, file_reads,
                   openai_done, github_calls>>

\* call_openai lines 39-44 for the summary, given what the POST met.
SummaryOutcome(o) ==
    LET r == call_openai(o)
    IN  /\ openai_done' = openai_done + 1
        /\ IF r.raised # "none"
           THEN /\ Crash(r.raised, "call_openai")
                /\ UNCHANGED <<ai_summary, log>>
           ELSE /\ ai_summary' = r.value
                /\ log' = log \o r.printed
                /\ pc' = "fixes_enter"
                /\ exc' = exc
        /\ UNCHANGED <<env, hung, diff, scanner_file, scanner_results, idx, ai_fixes,
                       final_comment, post_response, diff_runs, file_reads,
                       openai_calls, github_calls>>

\* The text-generation service answers the summary request, or the
\* connection fails.
GetAiSummary_Reply ==
    /\ pc = "summary_wait"
    /\ UNCHANGED snVars
    /\ ~hung
    /\ \E o \in OpenAIReplies : SummaryOutcome(o)

\* timeout=180 of line 39 ends the wait for the summary.
GetAiSummary_Timeout ==
    /\ pc = "summary_wait"
    /\ UNCHANGED snVars
    /\ SummaryOutcome(TimedOut)

\* main line 193, get_ai_fixes lines 100-107.
GetAiFixes_Enter ==
    /\ pc = "fixes_enter"
    /\ UNCHANGED snVars
    /\ LET res == scanner_results.results
       IN  CASE scanner_results.t # "obj" ->
                  \* .get of something that is not a dict
                  /\ Crash("AttributeError", "get_ai_fixes")
                  /\ UNCHANGED <<log, idx, ai_fixes>>
             [] scanner_results.t = "obj" /\ res.t \in {"null", "num"} ->
                  \* len() of None or of a number
                  /\ Crash("TypeError", "get_ai_fixes")
                  /\ UNCHANGED <<log, idx, ai_fixes>>
             [] OTHER ->
                  /\ exc' = exc
                  /\ idx' = 1
                  /\ ai_fixes' = << >>
                  /\ IF res.size = 0 \/ res.t # "list"
                     THEN /\ log' = log \o <<"Analyzing scanner findings...",
                                             "No valid findings in scanner results.">>
                          /\ pc' = "format"
                     ELSE /\ log' = Append(log, "Analyzing scanner findings...")
                          /\ pc' = "fixes_loop"
    /\ UNCHANGED <<env, hung, diff, scanner_file, scanner_results, ai_summary,
                   final_comment, post_response, diff_runs, file_reads,
                   openai_calls, openai_done, github_calls>>

\* The finding the loop of get_ai_fixes is at.
CurrentFinding == scanner_results.results.items[idx]

\* get_ai_fixes lines 132-138 once call_openai has returned reply: the
\* suggestion is appended and the loop goes on or the function returns.
FixReturned(reply, printed) ==
    LET f == CurrentFinding
        snippet == get_code_snippet(FileAt(f.path), f.start_line, f.end_line)
    IN  /\ ai_fixes' = AppendFix(ai_fixes, f, snippet, reply)
        /\ log' = log \o printed
        /\ idx' = idx + 1
        /\ pc' = IF idx = Len(scanner_results.results.items) THEN "format" ELSE "fixes_loop"

\* get_ai_fixes lines 109-132 for one finding, up to the POST of call_openai.
GetAiFixes_Call ==
    /\ pc = "fixes_loop"
    /\ UNCHANGED snVars
    /\ LET f == CurrentFinding
           snippet == get_code_snippet(FileAt(f.path), f.start_line, f.end_line)
       IN  CASE ~f.complete ->
                  /\ Crash("KeyError", "get_ai_fixes")
                  /\ UNCHANGED <<hung, idx, ai_fixes, log, openai_calls>>
             [] f.complete /\ snippet.raised # "none" ->
                  /\ Crash(snippet.raised, "get_code_snippet")
                  /\ UNCHANGED <<hung, idx, ai_fixes, log, openai_calls>>
             [] f.complete /\ snippet.raised = "none"
                  /\ ~StrTruthy(env["OPENAI_API_KEY"]) ->
                  /\ FixReturned(AiError("OPENAI_API_KEY not set"),
                                 <<"Error: OPENAI_API_KEY not set.">>)
                  /\ UNCHANGED <<hung, exc, openai_calls>>
             [] OTHER ->
                  /\ openai_calls' = openai_calls + 1
                  /\ hung' \in BOOLEAN
                  /\ pc' = "fix_wait"
                  /\ UNCHANGED <<idx, ai_fixes, log, exc>>
    /\ UNCHANGED <<env, diff, scanner_file, scanner_results, ai_summary,
                   final_comment, post_response, diff_runs, file_reads,
                   openai_done, github_calls>>

\* call_openai lines 39-44 for one finding, given what the POST met.
FixOutcome(o) ==
    LET r == call_openai(o)
    IN  /\ openai_done' = openai_done + 1
        /\ IF r.raised # "none"
           THEN /\ Crash(r.raised, "call_openai")
                /\ UNCHANGED <<idx, ai_fixes, log>>
           ELSE /\ FixReturned(r.value, r.printed)
                /\ exc' = exc
        /\ UNCHANGED <<env, hung, diff, scanner_file, scanner_results, ai_summary,
                       final_comment, post_response, diff_runs, file_reads,
                       openai_calls, github_calls>>

\* The text-generation service answers the request for a fix, or the
\* connection fails.
GetAiFixes_Reply ==
    /\ pc = "fix_wait"
    /\ UNCHANGED snVars
    /\ ~hung
    /\ \E o \in OpenAIReplies : FixOutcome(o)

\* timeout=180 of line 39 ends the wait for a fix.
GetAiFixes_Timeout ==
    /\ pc = "fix_wait"
    /\ UNCHANGED snVars
    /\ FixOutcome(TimedOut)

\* main lines 195-201, post_to_pr lines 161-169: the comment is built,
\* printed and sent.
Main_FormatAndPost ==
    /\ pc = "format"
    /\ UNCHANGED snVars
    /\ final_comment' = format_final_comment(ai_summary, ai_fixes)
    /\ log' = Append(log, "--- Final Comment ---")
    /\ github_calls' = github_calls + 1
    /\ hung' \in BOOLEAN
    /\ pc' = "post_wait"
    /\ UNCHANGED <<env, diff, scanner_file, scanner_results, ai_summary, idx,
                   ai_fixes, post_response, exc, diff_runs, file_reads,
                   openai_calls, openai_done>>

\* post_to_pr lines 169-175, then main returns.
PostOutcome(o) ==
    /\ post_response' = o
    /\ log' = log \o post_to_pr(o)
    /\ pc' = "exit0"
    /\ UNCHANGED <<env, hung, diff, scanner_file, scanner_results, ai_summary, idx,
                   ai_fixes, final_comment, exc, diff_runs, file_reads,
                   openai_calls, openai_done, github_calls>>

\* The collaboration endpoint answers, or the connection fails.
PostToPr_Reply ==
    /\ pc = "post_wait"
    /\ UNCHANGED snVars
    /\ ~hung
    /\ \E o \in GithubReplies : PostOutcome(o)

\* timeout=30 of line 169 ends the wait for the endpoint.
PostToPr_Timeout ==
    /\ pc = "post_wait"
    /\ UNCHANGED snVars
    /\ PostOutcome(TimedOut)

Next ==
    \/ Main_ConfigMissing
    \/ GetPrDiff_Run
    \/ GetPrDiff_Return
    \/ Main_LoadResults
    \/ GetAiSummary_Call
    \/ GetAiSummary_Reply
    \/ GetAiSummary_Timeout
    \/ GetAiFixes_Enter
    \/ GetAiFixes_Call
    \/ GetAiFixes_Reply
    \/ GetAiFixes_Timeout
    \/ Main_FormatAndPost
    \/ PostToPr_Reply
    \/ PostToPr_Timeout

Spec == Init /\ [][Next]_vars

\* The calls that carry a timeout are ended by it, and whatever else can
\* run does run; a call without a timeout that is never answered stays.
FairSpec == Spec /\ WF_vars(Next)

\* ------------------------------------------- get_code_snippet on its own
\* The files get_code_snippet is tried on: absent, not openable, and
\* readable with 0..MaxFileLines lines.
SnFiles == {MissingFile, UnreadableFile} \cup {ReadableFile(n) : n \in 0..MaxFileLines}

SnInit ==
    /\ env = [k \in ConfigNames |-> "v"]
    /\ PipeInit
    /\ sn_pc = "call"
    /\ sn_file \in SnFiles
    /\ sn_start \in -1..MaxLine
    /\ sn_end \in -1..MaxLine
    /\ sn_result = NoSnippet

\* One call of get_code_snippet(file_path, start_line, end_line).
Snippet_Call ==
    /\ sn_pc = "call"
    /\ sn_result' = get_code_snippet(sn_file, sn_start, sn_end)
    /\ sn_pc' = "done"
    /\ UNCHANGED <<sn_file, sn_start, sn_end>>
    /\ UNCHANGED pipeVars

SnNext == Snippet_Call

SnippetSpec == SnInit /\ [][SnNext]_vars

\* ------------------------------------------------------------------ claims
Range(s) == {s[i] : i \in 1..Len(s)}

\* The FindingsBatch get_ai_fixes works on: the list under "results", empty
\* when there is no such list.
Batch ==
    IF scanner_results.t = "obj" /\ scanner_results.results.t = "list"
    THEN scanner_results.results.items
    ELSE << >>

\* get_ai_fixes has returned to main.
FixesReturned == pc \in {"format", "post_wait", "exit0"}

\* C1: for every non-empty batch whose records all carry path, start.line,
\* end.line and extra.message, get_ai_fixes returns (it does not raise while
\* taking a snippet, whether or not the file is readable) a sequence as long
\* as the batch whose i-th Suggestion names the i-th Finding's path and
\* line range.
C1_OneSuggestionPerFindingInOrder ==
    (Len(Batch) >= 1 /\ \A i \in 1..Len(Batch) : Batch[i].complete)
    => /\ ~(pc = "crashed" /\ exc.site = "get_code_snippet")
       /\ FixesReturned =>
            /\ Len(ai_fixes) = Len(Batch)
            /\ \A i \in 1..Len(Batch) :
                 /\ ai_fixes[i].path = Batch[i].path
                 /\ ai_fixes[i].start_line = Batch[i].start_line
                 /\ ai_fixes[i].end_line = Batch[i].end_line

\* The findings file parsed, but "results" is absent, empty or not a list
\* (or the document is not an object at all).
MalformedResults(f) ==
    /\ f.state = "json"
    /\ \/ f.doc.t # "obj"
       \/ f.doc.results.t # "list"
       \/ f.doc.results.size = 0

\* C2: when the findings file parses but its results are absent, empty or
\* not a sequence, the run does not abort at the load or in get_ai_fixes, no
\* Suggestion is produced, and the report with the "No Anomalies Found" text
\* is handed to the Publisher.
C2_MalformedResultsGiveEmptyReport ==
    MalformedResults(scanner_file)
    => /\ pc # "exit1"
       /\ ~(pc = "crashed" /\ exc.site = "get_ai_fixes")
       /\ FixesReturned => ai_fixes = << >>
       /\ pc \in {"post_wait", "exit0"}
            => final_comment.section = "none" /\ github_calls = 1

\* C3: every failed generation call -- network error or timeout, error
\* status, malformed body including JSON without the text field -- is
\* absorbed: no exception leaves call_openai.
C3_GenerationFailuresAbsorbed ==
    ~(pc = "crashed" /\ exc.site = "call_openai")

\* C4: when the endpoint answers the comment POST with a 4xx/5xx response
\* that has a body, that body is written to the log, and the POST is sent
\* once only.
C4_ResponseBodyLogged ==
    (pc = "exit0" /\ post_response.error = "none"
        /\ RaisesForStatus(post_response) /\ post_response.body # "")
    => /\ "Response body" \in Range(log)
       /\ github_calls = 1

\* A setting is missing or empty.
AnySettingMissing == \E k \in ConfigNames : env[k] \in {PyNone, ""}

\* The git subprocess ended with a nonzero status.
DiffFailed == "Error getting git diff" \in Range(log)

\* The findings file could not be loaded: missing, unreadable or not JSON.
LoadFailed == scanner_file.state \in {"missing", "invalid", "unreadable"}

\* C5: a run ends with status 1 only when configuration is absent, the diff
\* operation fails or the findings file cannot be loaded; a run with
\* complete configuration, a diff operation that succeeds (whatever text it
\* returns) and a loadable findings file attempts the comment and ends with
\* status 0.
C5_ExitCodes ==
    pc \in Terminal
    => /\ ExitStatus = 1 => (AnySettingMissing \/ DiffFailed \/ LoadFailed)
       /\ (~AnySettingMissing /\ ~DiffFailed /\ scanner_file.state = "json")
            => (pc = "exit0" /\ github_calls = 1)

\* get_code_snippet was called on a readable file with a range that starts
\* after the file's last line.
SnOutside ==
    /\ sn_pc = "done"
    /\ sn_file.state = "readable"
    /\ sn_start > Len(sn_file.lines)

\* C6 as stated: for a readable file and a range fully outside it,
\* get_code_snippet returns the file's full content.
C6_OutsideRangeGivesFullContent ==
    SnOutside => sn_result = SnippetText(sn_file.lines)

\* C6 as amended: for a readable file with n lines and a range with
\* start > n, get_code_snippet returns the empty text and does not raise.
C6_OutsideRangeGivesEmptyText ==
    SnOutside => sn_result = SnippetText(<< >>)

C6_Witness ==
    /\ SnOutside
    /\ Len(sn_file.lines) >= 1
    /\ sn_end >= sn_start
    /\ sn_result.raised = "none"
    /\ sn_result.lines = << >>

\* C7: every external call is bounded by a timeout, so every run ends, also
\* one in which a call is never answered.
C7_EveryRunTerminates == <>(pc \in Terminal)

\* The findings of the batch that carry all attributes and whose source
\* file can be read.
ReadableFindings ==
    {i \in 1..Len(Batch) : Batch[i].complete /\ FileAt(Batch[i].path).state = "readable"}

\* C8 as stated: after get_ai_fixes has processed a batch, the number of
\* Suggestions is the number of Findings with all attributes and readable
\* source.
C8_CountsOnlyReadableFindings ==
    FixesReturned => Len(ai_fixes) = Cardinality(ReadableFindings)

\* C8 as amended: while get_ai_fixes runs the number of Suggestions is the
\* number of Findings already processed, and once it has returned it is the
\* number of Findings in the batch, those whose source file is missing
\* included.
C8_CountsEveryFinding ==
    /\ pc \in {"fixes_loop", "fix_wait"} => Len(ai_fixes) = idx - 1
    /\ FixesReturned => Len(ai_fixes) = Len(Batch)

C8_Witness ==
    /\ FixesReturned
    /\ Len(ai_fixes) = Len(Batch)
    /\ \E i \in 1..Len(Batch) : FileAt(Batch[i].path).state = "missing"

\* C9: if one of the five settings is missing or empty, main exits nonzero
\* before any external call: no git subprocess, no read of the findings
\* file, no HTTP request to either service.
C9_NoCallWithoutConfig ==
    AnySettingMissing
    => /\ pc \in {"start", "exit1"}
       /\ diff_runs = 0
       /\ file_reads = 0
       /\ openai_calls = 0
       /\ github_calls = 0

C9_Witness ==
    /\ pc = "exit1"
    /\ env["BASE_REF"] = ""
    /\ \A k \in ConfigNames \ {"BASE_REF"} : env[k] = "v"
    /\ diff_runs = 0

\* C10: the Publisher is invoked at most once, and only after the diff and
\* the findings were obtained and the summary call and every per-finding
\* call have returned; no generation call is made in a run in which diff
\* acquisition or findings loading failed.
C10_PublisherOnceAndLast ==
    /\ github_calls <= 1
    /\ github_calls = 1
         => /\ diff # PyNone
            /\ ~DiffFailed
            /\ scanner_file.state = "json"
            /\ ai_summary # NoAiReply
            /\ openai_calls = openai_done
            /\ Len(ai_fixes) = Len(Batch)
    /\ (DiffFailed \/ LoadFailed) => openai_calls = 0

C10_Witness ==
    /\ pc = "exit0"
    /\ github_calls = 1
    /\ openai_calls = 1 + Len(Batch)
    /\ Len(Batch) >= 2

====
